---- MODULE Spec2Model ----
(***************************************************************************)
(* Automated Document Organizer (final.py and final3.py).                  *)
(*                                                                         *)
(* The two files are two variants of the same DocumentOrganizer window.    *)
(* The model starts when the user has selected an output folder and then   *)
(* an input folder (in this order no handler has run yet).  It holds the   *)
(* variant, the directory trees under the input and the output root, the   *)
(* files the "Add Individual File" dialog can pick, and what the last      *)
(* handler did (progress bar writes, notice shown, exception that escaped, *)
(* calls to the vectorizer and to KMeans, mapping categorize_files         *)
(* returned).                                                              *)
(***************************************************************************)
EXTENDS Integers, Sequences, FiniteSets, TLC

VARIABLES
    variant,        \* "final" (final.py) or "final3" (final3.py)
    inTree,         \* entries below the input root
    outTree,        \* entries below the output root
    pool,           \* files elsewhere on disk that the file dialog can pick
    fitted,         \* the labelings KMeans(random_state=42) has answered with
    op,             \* the handler that ran last
    runs,           \* number of organize / add-file runs so far
    pre_in,         \* inTree when the last handler started
    pre_out,        \* outTree when the last handler started
    is_cat,         \* result of the last is_folder_categorized call, or "n/a"
    notice,         \* message box / status text of the last handler
    raised,         \* exception that escaped the last handler, or "none"
    vectorized,     \* TfidfVectorizer.fit_transform was called by the last handler
    kmeans,         \* the KMeans(n_clusters).fit_predict call of the last handler
    categorized,    \* mapping returned by categorize_files (insertion order)
    batch,          \* the files list handed to categorize_files
    added,          \* the file handed to process_individual_file, or NoFile
    chosen,         \* category the added file was put in, or NoName
    listing,        \* sub-folder names in the order os.scandir listed them
    scores,         \* silhouette_avg of every candidate that got one
    progress_max,   \* progress_bar maximum
    progress_log    \* values written to progress_bar.setValue, in order

vars == <<variant, inTree, outTree, pool, fitted, op, runs,
          pre_in, pre_out, is_cat, notice, raised, vectorized, kmeans,
          categorized, batch, added, chosen, listing, scores,
          progress_max, progress_log>>

(***************************************************************************)
(* Bounds of the model.                                                    *)
(***************************************************************************)
MaxRootFiles == 5   \* supported files directly in the input root
MaxTopics == 1      \* distinct non-empty TF-IDF rows among the documents
MaxRuns == 2        \* organize / add-file handler runs in one behaviour

(***************************************************************************)
(* Names, paths and directory entries.                                     *)
(* A name is a stem, a decimal suffix (0: none) and an extension with its  *)
(* dot and in the case it has on disk.                                     *)
(***************************************************************************)
Name(stem, num, ext) == [stem |-> stem, num |-> num, ext |-> ext]

NoName == Name("", 0, "")

\* f"Category_{label + 1}" and "Category_" + str(n)
CategoryName(n) == Name("Category_", n, "")

Uncategorized == Name("Uncategorized", 0, "")

File(path, doc) == [path |-> path, kind |-> "file", doc |-> doc]

Dir(path) == [path |-> path, kind |-> "dir", doc |-> 0]

NoFile == File(<<>>, 0)

\* os.path.basename
basename(e) == e.path[Len(e.path)]

IsPrefix(p, q) == Len(p) <= Len(q) /\ SubSeq(q, 1, Len(p)) = p

\* str.lower() on an extension
Lower(ext) ==
    CASE ext = ".TXT" -> ".txt"
      [] ext = ".PDF" -> ".pdf"
      [] ext = ".JPG" -> ".jpg"
      [] OTHER -> ext

supported_extensions(v) ==
    IF v = "final" THEN {".pdf", ".docx", ".pptx", ".txt"}
    ELSE {".pdf", ".docx", ".pptx", ".txt", ".jpg", ".jpeg", ".png"}

\* os.walk(folder) below path folder, keeping filename.lower().endswith(...)
get_files_from_folder(v, tree, folder) ==
    {e \in tree : /\ e.kind = "file"
                  /\ Len(e.path) > Len(folder)
                  /\ IsPrefix(folder, e.path)
                  /\ Lower(basename(e).ext) \in supported_extensions(v)}

\* [f.path for f in os.scandir(folder) if f.is_dir()] for the root
subfolders(tree) == {e \in tree : e.kind = "dir" /\ Len(e.path) = 1}

\* os.listdir(subfolder): files and directories alike
listdir(tree, folder) ==
    {e \in tree : Len(e.path) = Len(folder) + 1 /\ IsPrefix(folder, e.path)}

is_folder_categorized_final(tree) ==
    \E s \in subfolders(tree) : get_files_from_folder("final", tree, s.path) # {}

is_folder_categorized_final3(tree) ==
    \E s \in subfolders(tree) :
        \E e \in listdir(tree, s.path) :
            basename(e).ext \in supported_extensions("final3")

is_folder_categorized(v, tree) ==
    IF v = "final" THEN is_folder_categorized_final(tree)
    ELSE is_folder_categorized_final3(tree)

(***************************************************************************)
(* Documents.  A file entry carries a document id; the id decides the      *)
(* text the extractors return for it.  The text is kept as what the code   *)
(* looks at: the number of whitespace-separated tokens (len(text.split()), *)
(* capped at 3) and its TF-IDF row (0: no vocabulary term survives the     *)
(* tokenizer and the stop-word list; two texts with the same row are the   *)
(* same point for KMeans).                                                 *)
(***************************************************************************)
Text(tokens, row) == [tokens |-> tokens, row |-> row]

EmptyText == Text(0, 0)

\* the text of the documents of the input root itself: document 3 of every 8
\* is corrupt (no text), document 7 holds stop words only, every fourth has
\* two words
RootText(d) ==
    CASE d % 8 = 3 -> EmptyText
      [] d % 8 = 7 -> Text(3, 0)
      [] d % 4 = 0 -> Text(2, 1 + (d % MaxTopics))
      [] OTHER -> Text(3, 1 + (d % MaxTopics))

\* the text an extractor returns for a document ("" when extraction fails)
TextOf(doc) ==
    CASE doc = 11 -> Text(3, 1)     \* sub/x.txt
      [] doc = 12 -> Text(3, 1)     \* sub/y.TXT
      [] doc = 13 -> RootText(1)    \* sub/deep/a1.txt, a copy of a1.txt
      [] doc = 15 -> Text(3, 1)     \* Finance/f1.txt
      [] doc = 16 -> Text(3, 2)     \* Finance/f2.txt
      [] doc = 17 -> Text(3, 2)     \* Travel/t1.pdf
      [] doc = 18 -> Text(3, 1)     \* Travel/t2.txt
      [] doc = 19 -> Text(3, 1)     \* Uncategorized/u1.txt
      [] doc = 20 -> Text(3, 2)     \* Uncategorized/u2.txt
      [] doc = 25 -> Text(2, 1)     \* Category_2/c1.txt: two words
      [] doc = 26 -> Text(2, 1)     \* sub/s1.txt: two words
      [] doc = 21 -> Text(3, 1)     \* new.txt
      [] doc = 22 -> Text(2, 1)     \* short.txt: two words
      [] doc = 23 -> EmptyText      \* empty.pdf: corrupt
      [] doc = 24 -> Text(3, 0)     \* stop.txt: stop words only
      [] OTHER -> RootText(doc)

\* extract_text_from_file: dispatch on the lower-cased extension
extract_text_from_file(v, e) ==
    IF Lower(basename(e).ext) \in supported_extensions(v)
    THEN TextOf(e.doc)
    ELSE EmptyText

\* the order os.walk lists files in: the root's files, then the sub-directories'
RECURSIVE SeqOfFiles(_)
SeqOfFiles(S) ==
    IF S = {} THEN <<>>
    ELSE LET first == CHOOSE e \in S : \A f \in S : e.doc <= f.doc
         IN <<first>> \o SeqOfFiles(S \ {first})

Range(s) == {s[i] : i \in 1..Len(s)}

Min(a, b) == IF a <= b THEN a ELSE b

(***************************************************************************)
(* TfidfVectorizer and KMeans.                                             *)
(***************************************************************************)
\* TfidfVectorizer(stop_words='english').fit_transform(texts) raises
\* ValueError (empty vocabulary) when no text has a term
fit_transform_raises(texts) == \A i \in 1..Len(texts) : texts[i].row = 0

\* KMeans(n_clusters=k).fit_predict(X) raises ValueError when n_samples < k
fit_predict_raises(k, n) == n < k

\* the labelings fit_predict can return: one label in 0..k-1 per distinct row
Labelings(texts, k) == [{texts[i].row : i \in 1..Len(texts)} -> 0..(k - 1)]

n_clusters_final(n) == 5

n_clusters_final3(n) == Min(5, n)

n_clusters(v, n) == IF v = "final" THEN n_clusters_final(n) ELSE n_clusters_final3(n)

(***************************************************************************)
(* categorize_files                                                        *)
(***************************************************************************)
\* categorized_files[f"Category_{label + 1}"].append(file), in zip order;
\* the defaultdict keeps its keys in insertion order
\* the slip "categorized_files[label] = [file]" in place of append
RECURSIVE BucketOverwrite(_, _, _)
BucketOverwrite(files, labels, i) ==
    IF i = 0 THEN <<>>
    ELSE LET m == BucketOverwrite(files, labels, i - 1)
             c == CategoryName(labels[i] + 1)
             at == {j \in 1..Len(m) : m[j].category = c}
         IN IF at = {}
            THEN Append(m, [category |-> c, files |-> <<files[i]>>])
            ELSE [m EXCEPT ![CHOOSE j \in at : TRUE].files = <<files[i]>>]

RECURSIVE Bucket(_, _, _)
Bucket(files, labels, i) ==
    IF i = 0 THEN <<>>
    ELSE LET m == Bucket(files, labels, i - 1)
             c == CategoryName(labels[i] + 1)
             at == {j \in 1..Len(m) : m[j].category = c}
         IN IF at = {}
            THEN Append(m, [category |-> c, files |-> <<files[i]>>])
            ELSE [m EXCEPT ![CHOOSE j \in at : TRUE].files = Append(@, files[i])]

NoKMeans == [called |-> FALSE, n_clusters |-> 0, n_samples |-> 0]

\* the value categorize_files hands to progress_bar.setValue(len(files)):
\* final3.py rebinds files in its logging loop to the last category's list
progress_after_categorize(v, files, mapping) ==
    IF v = "final" THEN Len(files) ELSE Len(mapping[Len(mapping)].files)

\* categorize_files(files, progress_bar) when fit_predict labels the rows by lab
categorize_files(v, files, lab) ==
    LET texts == [i \in 1..Len(files) |-> extract_text_from_file(v, files[i])]
        k == n_clusters(v, Len(files))
        labels == [i \in 1..Len(files) |-> lab[texts[i].row]]
        mapping == Bucket(files, labels, Len(files))
    IN IF fit_transform_raises(texts)
       THEN [raised |-> "ValueError", vectorized |-> TRUE, kmeans |-> NoKMeans,
             mapping |-> <<>>, progress |-> <<>>]
       ELSE IF fit_predict_raises(k, Len(files))
       THEN [raised |-> "ValueError", vectorized |-> TRUE,
             kmeans |-> [called |-> TRUE, n_clusters |-> k, n_samples |-> Len(files)],
             mapping |-> <<>>, progress |-> <<>>]
       ELSE [raised |-> "none", vectorized |-> TRUE,
             kmeans |-> [called |-> TRUE, n_clusters |-> k, n_samples |-> Len(files)],
             mapping |-> mapping,
             progress |-> <<progress_after_categorize(v, files, mapping)>>]

NoLabels == [r \in {0} |-> 0]

\* the rows of the matrix a batch is vectorized to
RowsOf(v, files) == [i \in 1..Len(files) |-> extract_text_from_file(v, files[i]).row]

\* the labelings to draw lab from: KMeans has a fixed random_state, so the same
\* matrix and n_clusters are labelled as they were before in this run of the
\* program (NoLabels when fit_predict is not reached)
LabelChoices(v, files, seen) ==
    LET texts == [i \in 1..Len(files) |-> extract_text_from_file(v, files[i])]
        k == n_clusters(v, Len(files))
        before == {m \in seen : m.rows = RowsOf(v, files) /\ m.k = k}
    IN IF fit_transform_raises(texts) \/ fit_predict_raises(k, Len(files))
       THEN {NoLabels}
       ELSE IF before # {} THEN {m.lab : m \in before}
       ELSE Labelings(texts, k)

\* fitted after a batch was labelled by lab
Remember(v, files, lab, seen) ==
    IF lab = NoLabels THEN seen
    ELSE seen \cup {[rows |-> RowsOf(v, files), k |-> n_clusters(v, Len(files)),
                     lab |-> lab]}

(***************************************************************************)
(* The file system calls the handlers make, on a tree of entries.          *)
(***************************************************************************)
IsDir(tree, p) == \E e \in tree : e.path = p /\ e.kind = "dir"

IsFile(tree, p) == \E e \in tree : e.path = p /\ e.kind = "file"

\* open(dst, 'wb') and write: creates the file or replaces its content
WriteFile(tree, p, doc) == {e \in tree : e.path # p} \cup {File(p, doc)}

\* os.makedirs(p, exist_ok=True) for a directory directly below the root
makedirs(tree, p) ==
    IF IsDir(tree, p) THEN [tree |-> tree, raised |-> "none"]
    ELSE IF IsFile(tree, p) THEN [tree |-> tree, raised |-> "FileExistsError"]
    ELSE [tree |-> tree \cup {Dir(p)}, raised |-> "none"]

\* shutil.copy(src, dst): into dst when dst is a directory, else onto dst
shutil_copy(tree, src, dst) ==
    LET real_dst == IF IsDir(tree, dst) THEN Append(dst, basename(src)) ELSE dst
    IN IF IsDir(tree, real_dst)
       THEN [tree |-> tree, raised |-> "IsADirectoryError"]
       ELSE [tree |-> WriteFile(tree, real_dst, src.doc), raised |-> "none"]

\* shutil.move(src, dst): refuses an existing entry inside a directory dst,
\* else os.rename, which replaces an existing regular file
shutil_move(tree, src, dst) ==
    LET into == IsDir(tree, dst)
        real_dst == IF into THEN Append(dst, basename(src)) ELSE dst
    IN IF into /\ (IsDir(tree, real_dst) \/ IsFile(tree, real_dst))
       THEN [tree |-> tree, raised |-> "shutil.Error"]
       ELSE [tree |-> WriteFile(tree, real_dst, src.doc), raised |-> "none"]

\* shutil.copytree(src root, dst root, dirs_exist_ok=True): every directory is
\* made with os.makedirs(exist_ok=True), every file copied with copy2; a
\* failure is collected, the rest is still copied, and Error is raised at the end
copytree_blocked(out, e) ==
    \E k \in 1..Len(e.path) :
        /\ (k < Len(e.path) \/ e.kind = "dir")
        /\ IsFile(out, SubSeq(e.path, 1, k))

copytree_dst(out, e) ==
    IF IsDir(out, e.path) THEN Append(e.path, basename(e)) ELSE e.path

copytree_fails(out, e) ==
    \/ copytree_blocked(out, e)
    \/ e.kind = "file" /\ IsDir(out, copytree_dst(out, e))

copytree(src, out) ==
    LET done == {e \in src : ~copytree_fails(out, e)}
        written == {copytree_dst(out, e) : e \in {d \in done : d.kind = "file"}}
    IN [tree |-> {e \in out : e.path \notin written}
                 \cup {Dir(e.path) : e \in {d \in done : d.kind = "dir"}}
                 \cup {File(copytree_dst(out, e), e.doc) :
                          e \in {d \in done : d.kind = "file"}},
        raised |-> IF done = src THEN "none" ELSE "shutil.Error"]

(***************************************************************************)
(* Materializing a category -> files mapping under the output root.        *)
(***************************************************************************)
\* the loop nest "for category, files in ...: makedirs; for file in files: ..."
\* as the sequence of its file system calls
RECURSIVE Steps(_, _)
Steps(mapping, j) ==
    IF j = 0 THEN <<>>
    ELSE Steps(mapping, j - 1)
         \o <<[kind |-> "makedirs", category |-> mapping[j].category,
               file |-> Dir(<<>>)]>>
         \o [i \in 1..Len(mapping[j].files) |->
               [kind |-> "put", category |-> mapping[j].category,
                file |-> mapping[j].files[i]]]

\* final.py: shutil.copy(file, category_dir); processed_files += 1; setValue
put_final(st, step) ==
    LET r == shutil_copy(st.out, step.file, <<step.category>>)
    IN IF r.raised # "none" THEN [st EXCEPT !.raised = r.raised]
       ELSE [st EXCEPT !.out = r.tree,
                       !.processed = @ + 1,
                       !.log = Append(@, st.processed + 1)]

\* final3.py: shutil.move(file, os.path.join(category_folder, basename))
put_final3(st, step) ==
    LET r == shutil_move(st.out, step.file,
                         <<step.category, basename(step.file)>>)
    IN IF r.raised # "none" THEN [st EXCEPT !.raised = r.raised]
       ELSE [st EXCEPT !.out = r.tree, !.moved = @ \cup {step.file}]

\* the first i calls of the loop nest; an exception ends the loop
RECURSIVE Materialize(_, _, _, _)
Materialize(v, steps, i, st0) ==
    IF i = 0 THEN st0
    ELSE LET st == Materialize(v, steps, i - 1, st0)
             mk == makedirs(st.out, <<steps[i].category>>)
         IN IF st.raised # "none" THEN st
            ELSE IF steps[i].kind = "makedirs"
            THEN [st EXCEPT !.out = mk.tree, !.raised = mk.raised]
            ELSE IF v = "final" THEN put_final(st, steps[i])
            ELSE put_final3(st, steps[i])

\* final.py organize_files_into_folders / the loop of final3.py's handlers
organize_files_into_folders(v, mapping, out) ==
    LET steps == Steps(mapping, Len(mapping))
    IN Materialize(v, steps, Len(steps),
                   [out |-> out, moved |-> {}, processed |-> 0, log |-> <<>>,
                    raised |-> "none"])

(***************************************************************************)
(* organize_input_folder                                                   *)
(***************************************************************************)
Blank == [in |-> {}, out |-> {}, pool |-> {}, is_cat |-> "n/a",
          notice |-> "none", raised |-> "none", vectorized |-> FALSE,
          kmeans |-> NoKMeans, categorized |-> <<>>, batch |-> <<>>,
          added |-> NoFile, chosen |-> NoName, listing |-> <<>>,
          scores |-> <<>>, max |-> 0, log |-> <<>>]

Start(in, out, files) == [Blank EXCEPT !.in = in, !.out = out, !.pool = files]

\* the not-categorized branch shared by both variants: setValue(0),
\* setMaximum(len(files)), categorize_files, then the materializing loop
process_files(v, r0, files, lab) ==
    LET c == categorize_files(v, files, lab)
        m == organize_files_into_folders(v, c.mapping, r0.out)
        r1 == [r0 EXCEPT !.max = Len(files), !.batch = files,
                         !.vectorized = c.vectorized, !.kmeans = c.kmeans]
    IN IF c.raised # "none"
       THEN [r1 EXCEPT !.raised = c.raised, !.log = <<0>>]
       ELSE IF m.raised # "none"
       THEN [r1 EXCEPT !.raised = m.raised, !.categorized = c.mapping,
                       !.out = m.out, !.in = r0.in \ m.moved,
                       !.pool = r0.pool \ m.moved,
                       !.log = <<0>> \o c.progress \o m.log]
       ELSE [r1 EXCEPT !.categorized = c.mapping, !.out = m.out,
                       !.in = r0.in \ m.moved, !.pool = r0.pool \ m.moved,
                       !.notice = "complete",
                       !.log = <<0>> \o c.progress \o m.log
                               \o (IF v = "final" THEN <<>>
                                   ELSE <<progress_after_categorize(v, files, c.mapping)>>)]

organize_input_folder_final(in, out, files, lab) ==
    LET r0 == [Start(in, out, files) EXCEPT
                   !.is_cat = IF is_folder_categorized("final", in) THEN "yes" ELSE "no"]
        cp == copytree(in, out)
        found == SeqOfFiles(get_files_from_folder("final", in, <<>>))
    IN IF r0.is_cat = "yes"
       THEN [r0 EXCEPT !.out = cp.tree, !.raised = cp.raised,
                       !.notice = IF cp.raised = "none" THEN "copied" ELSE "none"]
       ELSE IF found # <<>> THEN process_files("final", r0, found, lab)
       ELSE [r0 EXCEPT !.notice = "no_files"]

organize_input_folder_final3(in, out, files, lab) ==
    LET r0 == [Start(in, out, files) EXCEPT
                   !.is_cat = IF is_folder_categorized("final3", in) THEN "yes" ELSE "no"]
        found == SeqOfFiles(get_files_from_folder("final3", in, <<>>))
    IN IF r0.is_cat = "yes" THEN [r0 EXCEPT !.notice = "already_categorized"]
       ELSE IF found = <<>> THEN [r0 EXCEPT !.notice = "no_files"]
       ELSE process_files("final3", r0, found, lab)

organize_input_folder(v, in, out, files, lab) ==
    IF v = "final" THEN organize_input_folder_final(in, out, files, lab)
    ELSE organize_input_folder_final3(in, out, files, lab)

\* the files organize_input_folder hands to categorize_files, if any
OrganizeBatch(v, in) ==
    IF is_folder_categorized(v, in) THEN <<>>
    ELSE SeqOfFiles(get_files_from_folder(v, in, <<>>))

(***************************************************************************)
(* categorize_individual_file (final.py)                                   *)
(***************************************************************************)
\* silhouette_score, in tenths: the mean silhouette coefficient of a
\* labelling with two clusters is above -1 and at most 1; three levels of it
ScoreValues == {-5, 0, 5}

\* best_silhouette_score = -1, in tenths
InitialBestScore == -10

\* every order os.scandir may list the sub-directories in
ListingOrders(tree) ==
    LET S == subfolders(tree)
    IN {o \in [1..Cardinality(S) -> S] : \A i, j \in 1..Cardinality(S) :
                                            o[i] = o[j] => i = j}

\* folder_texts after the filter "t and len(t.split()) >= 3"
folder_texts(tree, folder) ==
    {e \in get_files_from_folder("final", tree, folder.path) :
        extract_text_from_file("final", e).tokens >= 3}

\* KMeans(n_clusters=2) puts n >= 2 samples with at least two distinct rows in
\* two clusters, identical rows in one; silhouette_score raises ValueError
\* unless 2 <= number of labels <= n_samples - 1
silhouette_raises(n, rows) == ~(Min(2, Cardinality(rows)) >= 2 /\ 2 <= n - 1)

\* one pass of "for folder in categorized_folders"
candidate(st, tree, folder, text, sc) ==
    LET usable == folder_texts(tree, folder)
        rows == {extract_text_from_file("final", e).row : e \in usable}
        n == Cardinality(usable) + 1
    IN IF usable = {} THEN st
       ELSE IF rows = {0} THEN st
       ELSE IF silhouette_raises(n, rows \cup {text.row})
       THEN [st EXCEPT !.raised = "ValueError",
                       !.kmeans = [called |-> TRUE, n_clusters |-> 2, n_samples |-> n]]
       ELSE IF sc[basename(folder)] > st.best_score
       THEN [st EXCEPT !.best_score = sc[basename(folder)],
                       !.best = basename(folder),
                       !.scored = @ \cup {basename(folder)},
                       !.kmeans = [called |-> TRUE, n_clusters |-> 2, n_samples |-> n]]
       ELSE [st EXCEPT !.scored = @ \cup {basename(folder)},
                       !.kmeans = [called |-> TRUE, n_clusters |-> 2, n_samples |-> n]]

RECURSIVE best_fit(_, _, _, _, _)
best_fit(tree, order, i, text, sc) ==
    IF i = 0
    THEN [best |-> Uncategorized, best_score |-> InitialBestScore, scored |-> {},
          raised |-> "none", kmeans |-> NoKMeans]
    ELSE LET st == best_fit(tree, order, i - 1, text, sc)
         IN IF st.raised # "none" THEN st
            ELSE candidate(st, tree, order[i], text, sc)

\* returns the folder, the output tree (a synthesized category is created
\* there), the calls made, the listing and the scores computed
categorize_individual_file(in, out, file, order, sc) ==
    LET text == extract_text_from_file("final", file)
        st == best_fit(in, order, Len(order), text, sc)
        fresh == CategoryName(Len(order) + 1)
        mk == makedirs(out, <<fresh>>)
        r0 == [folder |-> Uncategorized, out |-> out, raised |-> "none",
               vectorized |-> FALSE, kmeans |-> NoKMeans,
               listing |-> [i \in 1..Len(order) |-> basename(order[i])],
               scores |-> <<>>]
        r1 == [r0 EXCEPT !.vectorized = TRUE, !.kmeans = st.kmeans,
                         !.scores = [c \in st.scored |-> sc[c]]]
    IN IF text.tokens < 3 THEN r0
       ELSE IF fit_transform_raises(<<text>>) THEN [r0 EXCEPT !.vectorized = TRUE]
       ELSE IF st.raised # "none"
       THEN [r1 EXCEPT !.raised = st.raised, !.folder = NoName]
       ELSE IF st.best = Uncategorized
       THEN [r1 EXCEPT !.folder = IF mk.raised = "none" THEN fresh ELSE NoName,
                       !.out = mk.tree, !.raised = mk.raised]
       ELSE [r1 EXCEPT !.folder = st.best]

(***************************************************************************)
(* process_individual_file                                                 *)
(***************************************************************************)
process_individual_file_final(in, out, files, file, order, sc) ==
    LET r0 == [Start(in, out, files) EXCEPT
                   !.added = file,
                   !.is_cat = IF is_folder_categorized("final", in) THEN "yes" ELSE "no"]
        c == categorize_individual_file(in, out, file, order, sc)
        cp == shutil_copy(c.out, file, <<c.folder>>)
        r1 == [r0 EXCEPT !.vectorized = c.vectorized, !.kmeans = c.kmeans,
                         !.out = c.out, !.listing = c.listing,
                         !.scores = c.scores]
    IN IF r0.is_cat = "no" THEN [r0 EXCEPT !.notice = "not_categorized"]
       ELSE IF c.raised # "none" THEN [r1 EXCEPT !.raised = c.raised]
       ELSE IF cp.raised # "none"
       THEN [r1 EXCEPT !.chosen = c.folder, !.raised = cp.raised]
       ELSE [r1 EXCEPT !.chosen = c.folder, !.out = cp.tree,
                       !.notice = "file_added"]

process_individual_file_final3(in, out, files, file, lab) ==
    LET r == process_files("final3", [Start(in, out, files) EXCEPT !.added = file],
                           <<file>>, lab)
    IN IF r.notice = "complete"
       THEN [r EXCEPT !.notice = "file_processed",
                      !.chosen = r.categorized[1].category]
       ELSE r

(***************************************************************************)
(* The disk before the window opens.                                       *)
(***************************************************************************)
RootExt(d) ==
    CASE d % 6 = 2 -> ".pdf"
      [] d % 6 = 3 -> ".docx"
      [] d % 6 = 5 -> ".pptx"
      [] d % 6 = 0 -> ".PDF"
      [] OTHER -> ".txt"

RootFiles(S) == {File(<<Name("a", d, RootExt(d))>>, d) : d \in S}

sub == Name("sub", 0, "")

Finance == Name("Finance", 0, "")

Travel == Name("Travel", 0, "")

\* what the input root holds besides supported files of its own
Scenarios ==
    { {},
      {File(<<Name("n", 0, ".dat")>>, 10)},
      {Dir(<<sub>>)},
      {Dir(<<sub>>), File(<<sub, Name("x", 0, ".txt")>>, 11)},
      {Dir(<<sub>>), File(<<sub, Name("y", 0, ".TXT")>>, 12)},
      {Dir(<<sub>>), Dir(<<sub, Name("deep", 0, "")>>),
       File(<<sub, Name("deep", 0, ""), Name("a", 1, ".txt")>>, 13)},
      {Dir(<<sub>>), File(<<sub, Name("n", 0, ".dat")>>, 14)},
      {Dir(<<sub>>), Dir(<<sub, Name("d", 0, ".txt")>>)},
      {Dir(<<Finance>>), File(<<Finance, Name("f", 1, ".txt")>>, 15),
       File(<<Finance, Name("f", 2, ".txt")>>, 16)},
      {Dir(<<Finance>>), File(<<Finance, Name("f", 1, ".txt")>>, 15),
       File(<<Finance, Name("f", 2, ".txt")>>, 16),
       Dir(<<Travel>>), File(<<Travel, Name("t", 1, ".pdf")>>, 17)},
      {Dir(<<Finance>>), File(<<Finance, Name("f", 1, ".txt")>>, 15),
       File(<<Finance, Name("f", 2, ".txt")>>, 16),
       Dir(<<Travel>>), File(<<Travel, Name("t", 1, ".pdf")>>, 17),
       File(<<Travel, Name("t", 2, ".txt")>>, 18)},
      {Dir(<<Uncategorized>>), File(<<Uncategorized, Name("u", 1, ".txt")>>, 19),
       File(<<Uncategorized, Name("u", 2, ".txt")>>, 20)},
      {Dir(<<CategoryName(2)>>), File(<<CategoryName(2), Name("c", 1, ".txt")>>, 25)},
      {Dir(<<sub>>), File(<<sub, Name("s", 1, ".txt")>>, 26)} }

\* the supported files of the root: none, or documents lo..hi
RootSets == {lo..hi : lo \in 1..MaxRootFiles, hi \in 0..MaxRootFiles}

InputTrees == {RootFiles(S) \cup sc : S \in RootSets, sc \in Scenarios}

PoolFiles ==
    {File(<<Name("new", 0, ".txt")>>, 21), File(<<Name("short", 0, ".txt")>>, 22),
     File(<<Name("empty", 0, ".pdf")>>, 23), File(<<Name("stop", 0, ".txt")>>, 24)}

Init ==
    /\ variant \in {"final", "final3"}
    /\ inTree \in InputTrees
    /\ outTree = {}
    /\ pool = PoolFiles
    /\ fitted = {}
    /\ op = "none"
    /\ runs = 0
    /\ pre_in = inTree
    /\ pre_out = {}
    /\ is_cat = "n/a"
    /\ notice = "none"
    /\ raised = "none"
    /\ vectorized = FALSE
    /\ kmeans = NoKMeans
    /\ categorized = <<>>
    /\ batch = <<>>
    /\ added = NoFile
    /\ chosen = NoName
    /\ listing = <<>>
    /\ scores = <<>>
    /\ progress_max = 0
    /\ progress_log = <<>>

(***************************************************************************)
(* The handlers.                                                           *)
(***************************************************************************)
\* what a run of a handler leaves behind
Ran(name, r) ==
    /\ op' = name
    /\ runs' = runs + 1
    /\ pre_in' = inTree
    /\ pre_out' = outTree
    /\ inTree' = r.in
    /\ outTree' = r.out
    /\ pool' = r.pool
    /\ is_cat' = r.is_cat
    /\ notice' = r.notice
    /\ raised' = r.raised
    /\ vectorized' = r.vectorized
    /\ kmeans' = r.kmeans
    /\ categorized' = r.categorized
    /\ batch' = r.batch
    /\ added' = r.added
    /\ chosen' = r.chosen
    /\ listing' = r.listing
    /\ scores' = r.scores
    /\ progress_max' = (IF r.batch = <<>> THEN progress_max ELSE r.max)
    /\ progress_log' = r.log
    /\ UNCHANGED variant

\* "Select Output Folder" is confirmed: organize_input_folder runs
open_output_folder_dialog ==
    /\ runs < MaxRuns
    /\ \E lab \in LabelChoices(variant, OrganizeBatch(variant, inTree), fitted) :
          /\ Ran("organize", organize_input_folder(variant, inTree, outTree, pool, lab))
          /\ fitted' = Remember(variant, OrganizeBatch(variant, inTree), lab, fitted)

\* "Add Individual File": process_individual_file(file_path), final.py
add_file_dialog_final ==
    /\ variant = "final"
    /\ runs < MaxRuns
    /\ \E file \in pool, order \in ListingOrders(inTree) :
          \E sc \in [{basename(f) : f \in subfolders(inTree)} -> ScoreValues] :
             /\ Ran("add", process_individual_file_final(inTree, outTree, pool, file,
                                                         order, sc))
             /\ fitted' = fitted

\* "Add Individual File": process_individual_file(file_path), final3.py
add_file_dialog_final3 ==
    /\ variant = "final3"
    /\ runs < MaxRuns
    /\ \E file \in pool : \E lab \in LabelChoices("final3", <<file>>, fitted) :
          /\ Ran("add", process_individual_file_final3(inTree, outTree, pool, file, lab))
          /\ fitted' = Remember("final3", <<file>>, lab, fitted)

Next ==
    \/ open_output_folder_dialog
    \/ add_file_dialog_final
    \/ add_file_dialog_final3

Spec == Init /\ [][Next]_vars

(***************************************************************************)
(* Properties.                                                             *)
(***************************************************************************)
\* the places a file holds in a mapping
PlacesOf(mapping, f) ==
    {p \in UNION {{<<j, i>> : i \in 1..Len(mapping[j].files)} : j \in 1..Len(mapping)} :
        mapping[p[1]].files[p[2]] = f}

\* C1: the mapping categorize_files returns covers the files it was given
\* exactly: every file is in one category's list, once; no other file is in
\* it; no category is listed twice and none is empty.
C1_MappingCoversInput ==
    categorized # <<>> =>
        /\ \A f \in Range(batch) : Cardinality(PlacesOf(categorized, f)) = 1
        /\ \A j \in 1..Len(categorized) :
              /\ categorized[j].files # <<>>
              /\ Range(categorized[j].files) \subseteq Range(batch)
              /\ \A k \in 1..Len(categorized) :
                    categorized[k].category = categorized[j].category => k = j

C1_Witness ==
    /\ variant = "final"
    /\ Len(batch) >= 5
    /\ Len(categorized) >= 2
    /\ \E j \in 1..Len(categorized) : Len(categorized[j].files) >= 2

\* C2: a batch of N >= 1 files asks KMeans for min(5, N) clusters, never for
\* more clusters than there are files.
C2_ClusterCountIsMin ==
    (batch # <<>> /\ kmeans.called) =>
        /\ kmeans.n_clusters = Min(5, Len(batch))
        /\ kmeans.n_clusters <= Len(batch)

\* the specification's "already categorized": a supported file (extension
\* compared case-insensitively) below an immediate sub-directory, at any depth
CategorizedBySpec(v, tree) ==
    \E s \in subfolders(tree) :
        \E e \in tree : /\ e.kind = "file"
                        /\ Len(e.path) > 1
                        /\ IsPrefix(s.path, e.path)
                        /\ Lower(basename(e).ext) \in supported_extensions(v)

\* C3: is_folder_categorized answers true exactly when a file with a
\* supported extension, compared case-insensitively, lies below an immediate
\* sub-directory at any depth (so false for an empty folder, one without
\* sub-directories, one whose sub-directories hold unsupported files only).
C3_CategorizedIffSupportedFileBelowSubfolder ==
    is_cat # "n/a" => ((is_cat = "yes") <=> CategorizedBySpec(variant, pre_in))

\* the files below the category directories of the output root, flattened
FlattenedOutput(tree) == {e \in tree : e.kind = "file" /\ Len(e.path) >= 2}

\* C4: after organize_input_folder completes on a not-categorized input root
\* and an empty output root, the files below the output root's category
\* directories correspond one to one to the supported files of the input
\* tree; copying leaves every original in place, moving leaves none.
C4_RoundTrip ==
    (op = "organize" /\ is_cat = "no" /\ pre_out = {} /\ notice = "complete") =>
        LET originals == get_files_from_folder(variant, pre_in, <<>>)
            placed == FlattenedOutput(outTree)
        IN /\ {e.doc : e \in placed} = {e.doc : e \in originals}
           /\ Cardinality(placed) = Cardinality(originals)
           /\ variant = "final" => inTree = pre_in
           /\ variant = "final3" => originals \cap inTree = {}

\* C5: organize_input_folder on an input root without any supported file
\* shows the "no files" notice and changes nothing on disk.
C5_NoFilesNoMutation ==
    (op = "organize" /\ get_files_from_folder(variant, pre_in, <<>>) = {}) =>
        /\ notice = "no_files"
        /\ outTree = pre_out
        /\ inTree = pre_in

\* C6: the values a batch run writes to the progress bar, from the reset to
\* 0 on, never decrease and lie between 0 and the number of files of the batch.
C6_ProgressMonotone ==
    (op = "organize" /\ batch # <<>>) =>
        \A i \in 1..Len(progress_log) :
            /\ progress_log[i] >= 0
            /\ progress_log[i] <= Len(batch)
            /\ i > 1 => progress_log[i - 1] <= progress_log[i]

\* C7: organize_input_folder on an already categorized input root runs no
\* clustering and assigns no Category_N; final.py leaves the input tree as it
\* was and every file of it at the same relative path under the output root,
\* final3.py shows the "already categorized" notice and changes nothing.
C7_AlreadyCategorizedFrame ==
    (op = "organize" /\ is_cat = "yes" /\ CategorizedBySpec(variant, pre_in)) =>
        /\ ~vectorized /\ ~kmeans.called /\ categorized = <<>>
        /\ inTree = pre_in
        /\ variant = "final" =>
              \A e \in pre_in : e.kind = "file" => e \in outTree
        /\ variant = "final3" =>
              notice = "already_categorized" /\ outTree = pre_out

\* C8: process_individual_file first determines whether the input root is
\* categorized; when it is not, it only says that the batch organization has
\* to run first: no vectorizer, no clustering, nothing created, copied or moved.
C8_IndividualFileNeedsCategorizedRoot ==
    (op = "add" /\ ~CategorizedBySpec(variant, pre_in)) =>
        /\ is_cat = "no"
        /\ notice = "not_categorized"
        /\ ~vectorized /\ ~kmeans.called
        /\ outTree = pre_out /\ inTree = pre_in

\* the single-file categorization ran for the added file
CategorizedAlone == op = "add" /\ (variant = "final" => is_cat = "yes")

\* a category that was there before the file was added
ExistedBefore(c) ==
    \/ \E e \in pre_out : e.path = <<c>>
    \/ \E e \in pre_in : e.path = <<c>> /\ e.kind = "dir"

\* C9: a single file whose text is empty or has fewer than 3 tokens, once it
\* is given a category, is given "Uncategorized" or a freshly synthesized
\* category, never a category that existed before.
C9_ShortTextNeverMatches ==
    (/\ CategorizedAlone
     /\ extract_text_from_file(variant, added).tokens < 3
     /\ chosen # NoName) =>
        \/ chosen = Uncategorized
        \/ ~ExistedBefore(chosen)

\* C10: a batch in which every text is empty or has fewer than 3 words is
\* not vectorized and not clustered, does not fail, and is labelled
\* "Uncategorized".
C10_DegenerateBatchShortCircuits ==
    (batch # <<>> /\ \A i \in 1..Len(batch) :
                        extract_text_from_file(variant, batch[i]).tokens < 3) =>
        /\ ~vectorized /\ ~kmeans.called
        /\ raised = "none"
        /\ Len(categorized) = 1
        /\ categorized[1].category = Uncategorized

\* the single-item best fit returned a category after scoring a candidate
BestFitReturned ==
    /\ op = "add" /\ variant = "final" /\ is_cat = "yes"
    /\ chosen # NoName
    /\ DOMAIN scores # {}

\* C11: whenever categorize_individual_file returns after at least one
\* candidate sub-folder got a score, the returned category is a scored
\* candidate, no scored candidate has a higher score, and no candidate with
\* the same score comes before it in the directory listing; this for every
\* name the candidates may have.
C11_BestFitReturnsFirstMaximum ==
    BestFitReturned =>
        /\ chosen \in DOMAIN scores
        /\ \A c \in DOMAIN scores : scores[c] <= scores[chosen]
        /\ \A i, j \in 1..Len(listing) :
              (/\ listing[i] = chosen
               /\ listing[j] \in DOMAIN scores
               /\ scores[listing[j]] = scores[chosen]) => i <= j

\* the single-item best fit got as far as its loop over the candidates
BestFitLooped ==
    /\ op = "add" /\ variant = "final" /\ is_cat = "yes"
    /\ extract_text_from_file("final", added).tokens >= 3
    /\ extract_text_from_file("final", added).row # 0

\* the candidates of the last run with a usable text and a vocabulary, split
\* by whether the 2-cluster partition and its silhouette can be computed
Degenerate(folder) ==
    LET usable == folder_texts(pre_in, folder)
        rows == {extract_text_from_file("final", e).row : e \in usable}
    IN silhouette_raises(Cardinality(usable) + 1,
                         rows \cup {extract_text_from_file("final", added).row})

DegenerateCandidates ==
    {basename(f) : f \in {g \in subfolders(pre_in) :
        /\ folder_texts(pre_in, g) # {}
        /\ {extract_text_from_file("final", e).row : e \in folder_texts(pre_in, g)} # {0}
        /\ Degenerate(g)}}

ComputableCandidates ==
    {basename(f) : f \in {g \in subfolders(pre_in) :
        /\ folder_texts(pre_in, g) # {}
        /\ {extract_text_from_file("final", e).row : e \in folder_texts(pre_in, g)} # {0}
        /\ ~Degenerate(g)}}

\* C12: when the partition or the silhouette of a candidate fails (a
\* candidate with a single usable text, say), the failure does not escape
\* categorize_individual_file: that candidate gets no score, every other
\* candidate that can be scored is scored, and a category is returned.
C12_CandidateFailureIsSkipped ==
    (BestFitLooped /\ DegenerateCandidates # {}) =>
        /\ raised # "ValueError"
        /\ DOMAIN scores = ComputableCandidates
        /\ chosen # NoName \/ raised = "FileExistsError"

\* the single-item best fit returned without any candidate having a score
NothingScored ==
    /\ BestFitLooped
    /\ chosen # NoName
    /\ DOMAIN scores = {}

\* C13: when categorize_individual_file returns and no candidate got a
\* score, it returns "Category_<n+1>", n the number of sub-folders of the
\* input root; no sub-folder of the input root has that name, and the
\* output root holds a directory of that name.
C13_FallbackCategoryIsFresh ==
    NothingScored =>
        /\ chosen = CategoryName(Cardinality(subfolders(pre_in)) + 1)
        /\ \A f \in subfolders(pre_in) : basename(f) # chosen
        /\ IsDir(outTree, <<chosen>>)

\* process_individual_file ran to its end with a category for the file
AddCompleted ==
    /\ op = "add"
    /\ raised = "none"
    /\ chosen # NoName

\* C14: when process_individual_file completes with category C for file F,
\* the output root holds a directory named C and F's content at
\* C/<basename of F>, as organize_files_into_folders would place it, and no
\* regular file named C has been created in the output root; this for a
\* matched folder, a synthesized Category_N and "Uncategorized", in both
\* variants.
C14_AddedFileLandsInCategoryDirectory ==
    AddCompleted =>
        /\ IsDir(outTree, <<chosen>>)
        /\ \E e \in outTree : /\ e.kind = "file"
                              /\ e.path = <<chosen, basename(added)>>
                              /\ e.doc = added.doc
        /\ IsFile(outTree, <<chosen>>) => IsFile(pre_out, <<chosen>>)

====
